---- MODULE Spec2Model ----
(***************************************************************************)
(* A model of github-wrapped (src/main.py): the command-line run of main,  *)
(* the two paginated fetches over the HTTP adapter github_request, the     *)
(* window filter, the aggregation of events and languages and the part of  *)
(* the dashboard that is computed (the busiest day).                       *)
(*                                                                         *)
(* Time.  A created_at string "YYYY-MM-DDTHH:MM:SSZ" is a record           *)
(* [day, sec]: its first ten characters (the date) and the second of that  *)
(* day.  strptime turns it into an instant; instants are counted in ticks, *)
(* TicksPerSec ticks to the second, because datetime.now carries a         *)
(* fraction of a second that created_at does not.                          *)
(*                                                                         *)
(* Optional JSON keys are sequences of length at most one: << >> is a      *)
(* missing key, <<v>> a key with value v.                                  *)
(***************************************************************************)
EXTENDS Integers, Sequences, FiniteSets, TLC

VARIABLES
    pc,           \* where the run is
    token,        \* os.getenv("GITHUB_TOKEN"): << >> (unset) or <<string>>
    argv,         \* the command line: [username, days], each optional, raw
    days,         \* args.days after validate_days
    now,          \* what datetime.now reads when fetch_events starts
    evFeed,       \* the server's event feed of the user, in server order
    repoFeed,     \* the server's repository list of the user, in server order
    requests,     \* every requests.get issued so far, in order, with its outcome
    cutoff,       \* fetch_events: cutoff
    page,         \* the page counter of the running fetch loop
    events,       \* fetch_events: events (the accumulated pages)
    filtered,     \* what fetch_events returned (main: events)
    repos,        \* fetch_repos: repos; after its return, main: repos
    stats,        \* analyze_events' result
    lang_stats,   \* analyze_languages' result
    dashboard,    \* what render_dashboard computed and printed
    exit_status   \* the process exit status; -1 while the process runs

vars == <<pc, token, argv, days, now, evFeed, repoFeed, requests, cutoff, page,
          events, filtered, repos, stats, lang_stats, dashboard, exit_status>>

----------------------------------------------------------------------------
(* Bounds of the model *)

\* per_page: 100 in the source (lines 63, 74, 98), scaled down
PerPage == 2
\* longest newest-first event feed
MaxFeed == 7
\* longest event feed in arbitrary order
MaxAnyFeed == 4
\* clock ticks per second (the fraction of a second datetime.now carries)
TicksPerSec == 2
\* longest repository list
MaxRepos == 5
\* longest event list handed to analyze_events on its own
MaxEvents == 3
\* longest event feed and repository list of a whole run of main
MaxRunFeed == 2
\* most requests.get calls of one run (never reached by the loops as written)
MaxRequests == 6

\* seconds in a day (timedelta(days=days))
SecsPerDay == 86400

----------------------------------------------------------------------------
(* Values *)

Get(opt, default) == IF opt = << >> THEN default ELSE opt[1]

Opt(S) == {<< >>} \cup {<<v>> : v \in S}

RECURSIVE SeqsUpTo(_, _)
SeqsUpTo(S, n) ==
    IF n = 0 THEN {<< >>}
    ELSE LET shorter == SeqsUpTo(S, n - 1)
         IN  shorter \cup {Append(s, x) : s \in {t \in shorter : Len(t) = n - 1}, x \in S}

\* the created_at values of the model: two dates, two seconds of each
Stamps == [day : {0, 1}, sec : {0, 1}]

\* datetime.strptime(created_at, "%Y-%m-%dT%H:%M:%SZ").replace(tzinfo=utc)
ParseCreatedAt(ca) == (ca.day * SecsPerDay + ca.sec) * TicksPerSec

\* created_at[:10]
DatePrefix(ca) == ca.day

\* datetime.now(timezone.utc): the instants of the next two dates at which
\* cutoff falls before, on, between and after the created_at values
NowSet ==
    {(d * SecsPerDay + s) * TicksPerSec + f :
        d \in {1, 2}, s \in {0, 1}, f \in 0..(TicksPerSec - 1)}

NoPayload == [size |-> << >>, action |-> << >>, pull_request |-> << >>]

Event(typ, repo, ca, payload) ==
    [type |-> typ, repo |-> repo, created_at |-> ca, payload |-> payload]

Push(n) == [NoPayload EXCEPT !.size = n]
PullRequest(action, pr) == [NoPayload EXCEPT !.action = action, !.pull_request = pr]
Issues(action) == [NoPayload EXCEPT !.action = action]

\* The (type, payload) shapes the aggregator tells apart, and one it does not know.
Shapes ==
    {<<"PushEvent", Push(n)>> : n \in Opt({2})}
    \cup {<<"PullRequestEvent", PullRequest(a, << >>)>> : a \in Opt({"opened", "closed"})}
    \cup {<<"PullRequestEvent", PullRequest(<<"closed">>, <<[merged |-> m]>>)>> :
             m \in Opt(BOOLEAN)}
    \cup {<<"IssuesEvent", Issues(a)>> : a \in Opt({"opened", "closed"})}
    \cup {<<"WatchEvent", NoPayload>>}

\* Events that differ in created_at only: all the fetch looks at.
PlainEvents == {Event("WatchEvent", "a/x", ca, NoPayload) : ca \in Stamps}

\* Events of every shape, and events of two repositories on two dates.
ShapedEvents ==
    {Event(sh[1], "a/x", [day |-> 0, sec |-> 0], sh[2]) : sh \in Shapes}
    \cup {Event("WatchEvent", "b/y", [day |-> d, sec |-> 1], NoPayload) : d \in {0, 1}}

NewestFirst(feed) ==
    \A i \in 1..(Len(feed) - 1) :
        ParseCreatedAt(feed[i].created_at) >= ParseCreatedAt(feed[i + 1].created_at)

Repos == {[name |-> "x", language |-> l] : l \in Opt({"Python", ""})}

----------------------------------------------------------------------------
(* The server and the HTTP adapter *)

Min(a, b) == IF a < b THEN a ELSE b

\* GET ...?per_page=100&page=n of a list: its n-th slice, empty past the end
PageOf(feed, n) ==
    SubSeq(feed, (n - 1) * PerPage + 1, Min(n * PerPage, Len(feed)))

\* How one requests.get can end: no response at all (RequestException), or a
\* status with a JSON body that is the requested page ("page") or is not a
\* list ("object": null, or an object such as GitHub's {"message": ...}).
Outcomes ==
    {[net |-> FALSE, status |-> 0, body |-> "none"]}
    \cup {[net |-> TRUE, status |-> 200, body |-> b] : b \in {"page", "object"}}
    \cup {[net |-> TRUE, status |-> s, body |-> "object"] :
             s \in {401, 403, 404, 422, 500, 503}}

\* Mutant: ">" for ">=" in the test of the server errors
AdapterFailsAbove500(o) ==
    \/ ~o.net
    \/ o.status = 404
    \/ o.status \in {401, 403}
    \/ o.status > 500

\* github_request calls error(), that is sys.exit(1), and does not return
AdapterFails(o) ==
    \/ ~o.net
    \/ o.status = 404
    \/ o.status \in {401, 403}
    \/ o.status >= 500

\* r.json() is a non-empty list: the negation of
\* "not data or not isinstance(data, list)"
IsPage(o, data) == o.body = "page" /\ data # << >>

Request(res, n, o) == [resource |-> res, page |-> n, outcome |-> o]

\* Mutant: the page counter is not advanced
SamePage(p) == p

\* page += 1 (lines 77 and 100)
NextPage(p) == p + 1

----------------------------------------------------------------------------
(* fetch_events *)

\* timedelta(days=days)
Timedelta(d) == d * SecsPerDay * TicksPerSec

\* Mutants of the loop's break: "<=" for "<", no short-page test, no date test
EventsStopAtCutoff(data, c) ==
    \/ ParseCreatedAt(data[Len(data)].created_at) <= c
    \/ Len(data) < PerPage

EventsStopNoShort(data, c) ==
    ParseCreatedAt(data[Len(data)].created_at) < c

EventsStopNoDate(data, c) ==
    Len(data) < PerPage

\* the loop's break after a page was appended (line 74)
EventsStop(data, c) ==
    \/ ParseCreatedAt(data[Len(data)].created_at) < c
    \/ Len(data) < PerPage

\* Mutant of the inclusion rule: ">" for ">="
InWindowStrict(ev, c) == ParseCreatedAt(ev.created_at) > c

\* the inclusion rule of the window filter (line 81)
InWindow(ev, c) == ParseCreatedAt(ev.created_at) >= c

\* the list comprehension of lines 79-82
RECURSIVE WindowFilter(_, _)
WindowFilter(evs, c) ==
    IF evs = << >> THEN << >>
    ELSE LET rest == WindowFilter(Tail(evs), c)
         IN  IF InWindow(Head(evs), c) THEN <<Head(evs)>> \o rest ELSE rest

FetchEventsBegin ==
    /\ pc = "fetch_events"
    /\ cutoff' = now - Timedelta(days)
    /\ events' = << >>
    /\ page' = 1
    /\ pc' = "events_loop"
    /\ UNCHANGED <<token, argv, days, now, evFeed, repoFeed, requests, filtered,
                   repos, stats, lang_stats, dashboard, exit_status>>

FetchEventsPage ==
    /\ pc = "events_loop"
    /\ Len(requests) < MaxRequests
    /\ \E o \in Outcomes :
         LET data == PageOf(evFeed, page) IN
         /\ requests' = Append(requests, Request("events", page, o))
         /\ IF AdapterFails(o)
            THEN /\ pc' = "exit"
                 /\ exit_status' = 1
                 /\ UNCHANGED <<events, page>>
            ELSE IF ~IsPage(o, data)
            THEN /\ pc' = "events_filter"
                 /\ UNCHANGED <<events, page, exit_status>>
            ELSE /\ events' = events \o data
                 /\ IF EventsStop(data, cutoff)
                    THEN pc' = "events_filter" /\ page' = page
                    ELSE pc' = "events_loop" /\ page' = NextPage(page)
                 /\ UNCHANGED exit_status
    /\ UNCHANGED <<token, argv, days, now, evFeed, repoFeed, cutoff, filtered,
                   repos, stats, lang_stats, dashboard>>

FetchEventsReturn ==
    /\ pc = "events_filter"
    /\ filtered' = WindowFilter(events, cutoff)
    /\ pc' = "fetch_repos"
    /\ UNCHANGED <<token, argv, days, now, evFeed, repoFeed, requests, cutoff, page,
                   events, repos, stats, lang_stats, dashboard, exit_status>>

----------------------------------------------------------------------------
(* fetch_repos *)

\* Mutant: a short page does not end the loop
ReposStopNever(data) == FALSE

\* the loop's break after a page was appended (line 98)
ReposStop(data) == Len(data) < PerPage

FetchReposBegin ==
    /\ pc = "fetch_repos"
    /\ repos' = << >>
    /\ page' = 1
    /\ pc' = "repos_loop"
    /\ UNCHANGED <<token, argv, days, now, evFeed, repoFeed, requests, cutoff, events, filtered,
                   stats, lang_stats, dashboard, exit_status>>

\* one turn of the loop; on a break fetch_repos returns repos to main
FetchReposPage ==
    /\ pc = "repos_loop"
    /\ Len(requests) < MaxRequests
    /\ \E o \in Outcomes :
         LET data == PageOf(repoFeed, page) IN
         /\ requests' = Append(requests, Request("repos", page, o))
         /\ IF AdapterFails(o)
            THEN /\ pc' = "exit"
                 /\ exit_status' = 1
                 /\ UNCHANGED <<repos, page>>
            ELSE IF ~IsPage(o, data)
            THEN /\ pc' = "analyze_events"
                 /\ UNCHANGED <<repos, page, exit_status>>
            ELSE /\ repos' = repos \o data
                 /\ IF ReposStop(data)
                    THEN pc' = "analyze_events" /\ page' = page
                    ELSE pc' = "repos_loop" /\ page' = NextPage(page)
                 /\ UNCHANGED exit_status
    /\ UNCHANGED <<token, argv, days, now, evFeed, repoFeed, cutoff, events, filtered,
                   stats, lang_stats, dashboard>>

----------------------------------------------------------------------------
(* collections.Counter: a dict, so the keys in the order of first insertion *)

HasKey(c, k) == \E i \in DOMAIN c : c[i].key = k

\* c[k] += 1
CounterInc(c, k) ==
    IF HasKey(c, k)
    THEN [i \in DOMAIN c |-> IF c[i].key = k THEN [c[i] EXCEPT !.n = @ + 1] ELSE c[i]]
    ELSE Append(c, [key |-> k, n |-> 1])

\* max(c.items(), key=itemgetter(1)): the first of the entries of highest count
FirstMax(c) ==
    CHOOSE i \in DOMAIN c :
        /\ \A j \in DOMAIN c : c[j].n <= c[i].n
        /\ \A j \in 1..(i - 1) : c[j].n < c[i].n

Without(c, i) == SubSeq(c, 1, i - 1) \o SubSeq(c, i + 1, Len(c))

\* c.most_common(n): heapq.nlargest(n, c.items(), key=itemgetter(1)), which is
\* sorted(c.items(), key=itemgetter(1), reverse=True)[:n], a stable sort
RECURSIVE MostCommon(_, _)
MostCommon(c, n) ==
    IF n = 0 \/ c = << >> THEN << >>
    ELSE <<c[FirstMax(c)]>> \o MostCommon(Without(c, FirstMax(c)), n - 1)

----------------------------------------------------------------------------
(* analyze_events, analyze_languages *)

\* Python's truth of payload.get("pull_request", {}).get("merged")
MergedFlag(payload) == Get(Get(payload.pull_request, [merged |-> << >>]).merged, FALSE)

\* Mutants: "=" for "+=" on commits; a closed pull request counts as merged
CommitsAssigned(st, payload) == [st EXCEPT !.commits = Get(payload.size, 0)]

PullRequestStepClosed(st, payload) ==
    IF payload.action = <<"opened">>
    THEN [st EXCEPT !.prs_opened = @ + 1]
    ELSE IF payload.action = <<"closed">>
    THEN [st EXCEPT !.prs_merged = @ + 1]
    ELSE st

\* lines 121-122
PushStep(st, payload) == [st EXCEPT !.commits = @ + Get(payload.size, 0)]

\* lines 123-129
PullRequestStep(st, payload) ==
    IF payload.action = <<"opened">>
    THEN [st EXCEPT !.prs_opened = @ + 1]
    ELSE IF payload.action = <<"closed">> /\ MergedFlag(payload)
    THEN [st EXCEPT !.prs_merged = @ + 1]
    ELSE st

\* lines 130-131
IssuesStep(st, payload) ==
    IF payload.action = <<"opened">> THEN [st EXCEPT !.issues = @ + 1] ELSE st

\* the body of the loop, lines 115-131
EventStep(st, ev) ==
    LET counted == [st EXCEPT !.repo_counter = CounterInc(@, ev.repo),
                              !.day_counter = CounterInc(@, DatePrefix(ev.created_at))]
    IN  IF ev.type = "PushEvent" THEN PushStep(counted, ev.payload)
        ELSE IF ev.type = "PullRequestEvent" THEN PullRequestStep(counted, ev.payload)
        ELSE IF ev.type = "IssuesEvent" THEN IssuesStep(counted, ev.payload)
        ELSE counted

RECURSIVE EventLoop(_, _)
EventLoop(st, evs) ==
    IF evs = << >> THEN st ELSE EventLoop(EventStep(st, Head(evs)), Tail(evs))

NoStats ==
    [total_events |-> 0, commits |-> 0, prs_opened |-> 0, prs_merged |-> 0,
     issues |-> 0, repo_counter |-> << >>, day_counter |-> << >>]

analyze_events(evs) == EventLoop([NoStats EXCEPT !.total_events = Len(evs)], evs)

\* r.get("language") is truthy: the key is there and is not None nor ""
HasLanguage(r) == r.language # << >> /\ r.language[1] # ""

RECURSIVE analyze_languages(_)
analyze_languages(rs) ==
    IF rs = << >> THEN << >>
    ELSE LET init == analyze_languages(SubSeq(rs, 1, Len(rs) - 1))
             r == rs[Len(rs)]
         IN  IF HasLanguage(r) THEN CounterInc(init, r.language[1]) ELSE init

AnalyzeEvents ==
    /\ pc = "analyze_events"
    /\ stats' = analyze_events(filtered)
    /\ pc' = "analyze_languages"
    /\ UNCHANGED <<token, argv, days, now, evFeed, repoFeed, requests, cutoff, page, events, filtered,
                   repos, lang_stats, dashboard, exit_status>>

AnalyzeLanguages ==
    /\ pc = "analyze_languages"
    /\ lang_stats' = analyze_languages(repos)
    /\ pc' = "render"
    /\ UNCHANGED <<token, argv, days, now, evFeed, repoFeed, requests, cutoff, page, events, filtered,
                   repos, stats, dashboard, exit_status>>

----------------------------------------------------------------------------
(* render_dashboard, and the end of main *)

\* the rows of the repository table and of the language table
TopRepos == 5
TopLanguages == 10
\* the window beyond which the caveat is printed
RetentionDays == 90

NoDashboard ==
    [rendered |-> FALSE, empty |-> FALSE, busiest |-> << >>, top_repos |-> << >>,
     languages |-> << >>, caveat |-> FALSE]

\* what the dashboard shows: the "no activity" panel alone, or the summary
\* with the busiest day, the repository table, the language table, the caveat
render_dashboard(d, st, ls) ==
    IF st.total_events = 0
    THEN [NoDashboard EXCEPT !.rendered = TRUE, !.empty = TRUE]
    ELSE [rendered |-> TRUE,
          empty |-> FALSE,
          busiest |-> MostCommon(st.day_counter, 1),
          top_repos |-> MostCommon(st.repo_counter, TopRepos),
          languages |-> MostCommon(ls, TopLanguages),
          caveat |-> d > RetentionDays]

\* main's last call; the process then ends with status 0
RenderDashboard ==
    /\ pc = "render"
    /\ dashboard' = render_dashboard(days, stats, lang_stats)
    /\ pc' = "exit"
    /\ exit_status' = 0
    /\ UNCHANGED <<token, argv, days, now, evFeed, repoFeed, requests, cutoff, page, events, filtered,
                   repos, stats, lang_stats>>

----------------------------------------------------------------------------
(* main, parse_args, validate_days *)

\* a --days value as typed: whether int() accepts it, and the integer it gives
RawDays ==
    {[isint |-> FALSE, value |-> 0]} \cup {[isint |-> TRUE, value |-> v] : v \in {-1, 0, 1, 2}}

\* Mutant: "<" for "<=" in validate_days
DaysValidFromZero(raw) == raw.isint /\ ~(raw.value < 0)

\* validate_days returns (raises neither ValueError's ArgumentTypeError nor
\* the one for days <= 0)
DaysValid(raw) == raw.isint /\ ~(raw.value <= 0)

\* "not token" is false
TokenSet(t) == t # << >> /\ t[1] # ""

\* load_dotenv, os.getenv and the test of the token (lines 188-192)
LoadToken ==
    /\ pc = "main"
    /\ IF TokenSet(token)
       THEN pc' = "parse_args" /\ UNCHANGED exit_status
       ELSE pc' = "exit" /\ exit_status' = 1
    /\ UNCHANGED <<token, argv, days, now, evFeed, repoFeed, requests, cutoff, page, events, filtered,
                   repos, stats, lang_stats, dashboard>>

\* parse_args: argparse exits with status 2 on a missing required flag and on
\* validate_days' ArgumentTypeError
ParseArgs ==
    /\ pc = "parse_args"
    /\ IF argv.username # << >> /\ argv.days # << >> /\ DaysValid(argv.days[1])
       THEN /\ days' = argv.days[1].value
            /\ pc' = "fetch_events"
            /\ UNCHANGED exit_status
       ELSE /\ pc' = "exit"
            /\ exit_status' = 2
            /\ UNCHANGED days
    /\ UNCHANGED <<token, argv, now, evFeed, repoFeed, requests, cutoff, page,
                   events, filtered, repos, stats, lang_stats, dashboard>>

----------------------------------------------------------------------------
(* The state a run starts from *)

Fresh ==
    /\ requests = << >>
    /\ cutoff = 0
    /\ page = 0
    /\ events = << >>
    /\ filtered = << >>
    /\ repos = << >>
    /\ stats = NoStats
    /\ lang_stats = << >>
    /\ dashboard = NoDashboard
    /\ exit_status = -1

EventFeeds ==
    {f \in SeqsUpTo(PlainEvents, MaxFeed) : Len(f) <= MaxAnyFeed \/ NewestFirst(f)}

\* fetch_events on its own, called with a valid token and a validated days
InitEvents ==
    /\ pc = "fetch_events"
    /\ token = <<"t0k">>
    /\ argv = [username |-> <<"octocat">>, days |-> << >>]
    /\ days \in {1, 2}
    /\ now \in NowSet
    /\ evFeed \in EventFeeds
    /\ repoFeed = << >>
    /\ Fresh

NextEvents == FetchEventsBegin \/ FetchEventsPage \/ FetchEventsReturn

SpecEvents == InitEvents /\ [][NextEvents]_vars

\* fetch_repos on its own
InitRepos ==
    /\ pc = "fetch_repos"
    /\ token = <<"t0k">>
    /\ argv = [username |-> <<"octocat">>, days |-> << >>]
    /\ days = 1
    /\ now = 0
    /\ evFeed = << >>
    /\ repoFeed \in SeqsUpTo(Repos, MaxRepos)
    /\ Fresh

NextRepos == FetchReposBegin \/ FetchReposPage

\* The loop is the only thread of the process and each requests.get returns
\* or raises within its timeout, so a turn that can be taken is taken.
SpecRepos == InitRepos /\ [][NextRepos]_vars /\ WF_vars(NextRepos)

\* analyze_events, analyze_languages and render_dashboard on their own, on
\* any event list in any order
InitAnalyze ==
    /\ pc = "analyze_events"
    /\ token = <<"t0k">>
    /\ argv = [username |-> <<"octocat">>, days |-> << >>]
    /\ days \in {1, 91}
    /\ now \in {0}
    /\ evFeed = << >>
    /\ repoFeed = << >>
    /\ requests = << >>
    /\ cutoff = 0
    /\ page = 0
    /\ events = << >>
    /\ filtered \in SeqsUpTo(ShapedEvents, MaxEvents)
    /\ repos \in {<< >>, <<[name |-> "x", language |-> <<"Python">>]>>}
    /\ stats = NoStats
    /\ lang_stats = << >>
    /\ dashboard = NoDashboard
    /\ exit_status = -1

NextAnalyze == AnalyzeEvents \/ AnalyzeLanguages \/ RenderDashboard

SpecAnalyze == InitAnalyze /\ [][NextAnalyze]_vars

\* Events of a whole run: a push and an opened pull request on both dates
RunEvents ==
    {Event("PushEvent", "a/x", [day |-> d, sec |-> 0], Push(<<2>>)) : d \in {0, 1}}
    \cup {Event("PullRequestEvent", "b/y", [day |-> 1, sec |-> 1],
                PullRequest(<<"opened">>, << >>))}

\* a run of main from the command line
Init ==
    /\ pc = "main"
    /\ token \in Opt({"", "t0k"})
    /\ argv \in [username : Opt({"octocat"}), days : Opt(RawDays)]
    /\ days = 0
    /\ now \in {(2 * SecsPerDay) * TicksPerSec, (2 * SecsPerDay) * TicksPerSec + 1}
    /\ evFeed \in SeqsUpTo(RunEvents, MaxRunFeed)
    /\ repoFeed \in SeqsUpTo(Repos, MaxRunFeed)
    /\ Fresh

Next ==
    \/ LoadToken
    \/ ParseArgs
    \/ FetchEventsBegin
    \/ FetchEventsPage
    \/ FetchEventsReturn
    \/ FetchReposBegin
    \/ FetchReposPage
    \/ AnalyzeEvents
    \/ AnalyzeLanguages
    \/ RenderDashboard

Spec == Init /\ [][Next]_vars

----------------------------------------------------------------------------
(* Claims about fetch_events (under SpecEvents) *)

Instant(ev) == (ev.created_at.day * SecsPerDay + ev.created_at.sec) * TicksPerSec

Returned == pc = "fetch_repos"

\* every request so far was answered with the requested page of the feed
AllServed ==
    \A i \in DOMAIN requests :
        requests[i].outcome = [net |-> TRUE, status |-> 200, body |-> "page"]

NumPages(feed) == (Len(feed) + PerPage - 1) \div PerPage

HasInWindow(data) == \E j \in DOMAIN data : Instant(data[j]) >= cutoff

\* the pages of the feed that hold an in-window event
WindowPages == {n \in 1..NumPages(evFeed) : HasInWindow(PageOf(evFeed, n))}

LastWindowPage ==
    IF WindowPages = {} THEN 0
    ELSE CHOOSE n \in WindowPages : \A m \in WindowPages : m <= n

InWindowCount(evs) == Cardinality({j \in DOMAIN evs : Instant(evs[j]) >= cutoff})

\* C1: fetch_events never silently truncates.  For a newest-first feed served
\* page by page, once fetch_events has returned, every page of the feed that
\* holds an in-window event was requested and is, whole, in the accumulated
\* list at its place, and the in-window events of the whole feed are exactly
\* the returned list.
C1_NoTruncation ==
    (Returned /\ NewestFirst(evFeed) /\ AllServed) =>
        /\ \A n \in WindowPages :
              /\ \E i \in DOMAIN requests : requests[i].page = n
              /\ Len(events) >= (n - 1) * PerPage + Len(PageOf(evFeed, n))
              /\ \A j \in DOMAIN PageOf(evFeed, n) :
                    events[(n - 1) * PerPage + j] = PageOf(evFeed, n)[j]
        /\ Len(filtered) = InWindowCount(evFeed)
        /\ \A j \in DOMAIN evFeed :
              Instant(evFeed[j]) >= cutoff => \E k \in DOMAIN filtered : filtered[k] = evFeed[j]

\* C1's case: a newest-first feed whose window ends inside its second page,
\* with an event exactly at cutoff on that page.
C1_Witness ==
    /\ Returned /\ NewestFirst(evFeed) /\ AllServed
    /\ LastWindowPage = 2
    /\ Len(evFeed) > 2 * PerPage
    /\ Instant(evFeed[PerPage + 1]) = cutoff
    /\ InWindowCount(evFeed) < Len(evFeed)
    /\ Len(filtered) = InWindowCount(evFeed)

\* the index in evs of its k-th event at or after cutoff
KthInWindow(evs, k) ==
    CHOOSE i \in DOMAIN evs :
        /\ Instant(evs[i]) >= cutoff
        /\ InWindowCount(SubSeq(evs, 1, i)) = k

\* C2: the window filter is exact and order-preserving.  The returned list
\* is the accumulated list with the events before cutoff struck out: it holds
\* no event before cutoff, it holds every accumulated event at or after
\* cutoff (an event exactly at cutoff too), in the order of the accumulated
\* list.
C2_FilterExact ==
    Returned =>
        /\ \A k \in DOMAIN filtered : Instant(filtered[k]) >= cutoff
        /\ Len(filtered) = InWindowCount(events)
        /\ \A k \in DOMAIN filtered : filtered[k] = events[KthInWindow(events, k)]

\* C2's case: an accumulated list in no particular order with events before,
\* at and after cutoff, of which the filter kept some and dropped some.
C2_Witness ==
    /\ Returned
    /\ ~NewestFirst(events)
    /\ \E i, j, k \in DOMAIN events :
          /\ Instant(events[i]) < cutoff
          /\ Instant(events[j]) = cutoff
          /\ Instant(events[k]) > cutoff
    /\ Len(filtered) >= 2
    /\ Len(filtered) < Len(events)

\* the page n the server holds is full and its last item is not before cutoff
GoesOn(n) ==
    LET data == PageOf(evFeed, n) IN
    /\ Len(data) = PerPage
    /\ Instant(data[Len(data)]) >= cutoff

\* sizes [100, 100, 100, 40] with cutoff falling inside page 3, scaled
ExampleFeed ==
    /\ NewestFirst(evFeed)
    /\ NumPages(evFeed) = 4
    /\ Len(evFeed) < 4 * PerPage
    /\ Instant(PageOf(evFeed, 3)[1]) >= cutoff
    /\ Instant(PageOf(evFeed, 3)[PerPage]) < cutoff

\* C3: event pagination requests pages 1, 2, 3, ... in order, each once;
\* every page but the last requested one was a full page whose last item is
\* not before cutoff, so no request follows a page that is short or ends
\* before cutoff; the loop ends only on such a page, an empty page or a body
\* that is no list; and on the example feed exactly 3 requests are issued.
C3_PageOrder ==
    /\ \A i \in DOMAIN requests :
          requests[i].resource = "events" /\ requests[i].page = i
    /\ \A i \in 1..(Len(requests) - 1) :
          requests[i].outcome.body = "page" /\ GoesOn(i)
    /\ pc = "events_loop" => page = Len(requests) + 1
    /\ (Returned /\ AllServed) => ~GoesOn(Len(requests))
    /\ (Returned /\ AllServed /\ ExampleFeed) =>
          Len(requests) = 3 /\ requests[3].page = 3

C3_Witness ==
    /\ Returned /\ AllServed /\ ExampleFeed
    /\ Len(requests) = 3
    /\ Len(events) = 3 * PerPage

\* C4 as claimed: for a newest-first feed with an in-window event, no page
\* beyond the last page holding an in-window event is requested.
C4_MinimumPages ==
    (NewestFirst(evFeed) /\ AllServed /\ LastWindowPage >= 1) =>
        \A i \in DOMAIN requests : requests[i].page <= LastWindowPage

\* C4 amended: for a newest-first feed served page by page, fetch_events
\* requests at most one page beyond the last page holding an in-window event
\* (page 1 when no page holds one); it requests that one page more exactly
\* when there is no in-window page or the last in-window page is full with
\* its last item at or after cutoff.
C4_AtMostOneMore ==
    (NewestFirst(evFeed) /\ AllServed) =>
        /\ \A i \in DOMAIN requests : requests[i].page <= LastWindowPage + 1
        /\ Returned =>
              Len(requests) =
                  IF LastWindowPage >= 1 /\ ~GoesOn(LastWindowPage)
                  THEN LastWindowPage ELSE LastWindowPage + 1

\* C4's case: the last in-window page is full and wholly in-window, its last
\* item exactly at cutoff, and the page after it was requested.
C4_Witness ==
    /\ Returned /\ NewestFirst(evFeed) /\ AllServed
    /\ LastWindowPage = 2
    /\ GoesOn(2)
    /\ Instant(evFeed[2 * PerPage]) = cutoff
    /\ Len(evFeed) > 2 * PerPage
    /\ Len(requests) = 3

----------------------------------------------------------------------------
(* Claims about fetch_repos (under SpecRepos) *)

ServedPage(o) == o.net /\ o.status = 200 /\ o.body = "page"

\* the items of the pages the first i requests received, in server order
RECURSIVE PagesReceived(_)
PagesReceived(i) ==
    IF i = 0 THEN << >>
    ELSE PagesReceived(i - 1)
         \o (IF ServedPage(requests[i].outcome) THEN PageOf(repoFeed, i) ELSE << >>)

ReposPagesInOrder ==
    \A i \in DOMAIN requests : requests[i].resource = "repos" /\ requests[i].page = i

\* every request but the last received a full page
NoRequestAfterShortPage ==
    \A i \in 1..(Len(requests) - 1) :
        ServedPage(requests[i].outcome) /\ Len(PageOf(repoFeed, i)) = PerPage

ReposAllReturned == pc = "analyze_events" => repos = PagesReceived(Len(requests))

\* C5: repository pagination always terminates.  On every repository list,
\* served in full pages and then a short page (a short list, an empty list or
\* a body that is no list), fetch_repos eventually stops; it requests pages
\* 1, 2, ... and none after a page that is not full; and it returns the items
\* of all pages it received, in server order.
C5_ReposTerminate ==
    /\ <>(pc \in {"analyze_events", "exit"})
    /\ [](ReposPagesInOrder /\ NoRequestAfterShortPage /\ ReposAllReturned)

\* C5's case: a list of full pages only, ended by the empty page after them
C5_Witness ==
    /\ pc = "analyze_events"
    /\ Len(repoFeed) = 2 * PerPage
    /\ Len(requests) = 3
    /\ \A i \in DOMAIN requests : ServedPage(requests[i].outcome)
    /\ repos = repoFeed

----------------------------------------------------------------------------
(* Claims about a whole run (under Spec) *)

\* a transport failure or a status 404, 401, 403 or >= 500
FatalOutcome(o) == ~o.net \/ o.status \in {404, 401, 403} \/ o.status >= 500

\* C6: every adapter error is fatal and leaves no partial report.  A request
\* of either fetch, at any page, that ended in a transport failure or a status
\* 404, 401, 403 or >= 500 is the last request of the run (it is not retried
\* and no page is requested after it), the run has ended with a non-zero exit
\* status and the dashboard is not rendered.
C6_AdapterErrorFatal ==
    \A i \in DOMAIN requests :
        FatalOutcome(requests[i].outcome) =>
            /\ i = Len(requests)
            /\ pc = "exit"
            /\ exit_status > 0
            /\ ~dashboard.rendered

\* C6's case: the events were fetched and filtered, the first page of
\* repositories was received, and the request for the second page fails
C6_Witness ==
    /\ filtered # << >>
    /\ repos # << >>
    /\ Len(requests) >= 3
    /\ requests[Len(requests)].resource = "repos"
    /\ requests[Len(requests)].page = 2
    /\ requests[Len(requests)].outcome.status = 500
    /\ pc = "exit"

TokenMissing == token = << >> \/ token = <<"">>

DaysInvalid ==
    /\ argv.days # << >>
    /\ ~argv.days[1].isint \/ argv.days[1].value <= 0

\* C7: usage errors are reported before any network call.  When the token is
\* absent or empty, or --days is no integer or is <= 0, the run never leaves
\* the start of main and parse_args, no request is ever issued, nothing is
\* rendered, and where the run has ended its exit status is non-zero.
C7_UsageErrorsFirst ==
    (TokenMissing \/ DaysInvalid) =>
        /\ pc \in {"main", "parse_args", "exit"}
        /\ requests = << >>
        /\ ~dashboard.rendered
        /\ pc = "exit" => exit_status > 0

\* C7's case: a token, a username and --days 0; argparse has ended the run
C7_Witness ==
    /\ ~TokenMissing
    /\ argv.username # << >>
    /\ argv.days = <<[isint |-> TRUE, value |-> 0]>>
    /\ pc = "exit"
    /\ exit_status = 2
    /\ requests = << >>

----------------------------------------------------------------------------
(* Claims about analyze_events and the busiest day (under SpecAnalyze) *)

Analyzed == pc \in {"analyze_languages", "render", "exit"}

IsPullRequest(ev, action) ==
    ev.type = "PullRequestEvent" /\ ev.payload.action = <<action>>

MergedTrue(ev) == ev.payload.pull_request = <<[merged |-> <<TRUE>>]>>

\* C8: prs_opened is the number of PullRequestEvent events with action opened
\* and prs_merged the number of those with action closed whose pull_request
\* record has merged = true; so a closed pull request with merged false or
\* with no merged flag counts in neither, and an opened one in prs_opened only.
C8_PullRequestCounts ==
    Analyzed =>
        /\ stats.prs_opened =
              Cardinality({i \in DOMAIN filtered : IsPullRequest(filtered[i], "opened")})
        /\ stats.prs_merged =
              Cardinality({i \in DOMAIN filtered :
                  IsPullRequest(filtered[i], "closed") /\ MergedTrue(filtered[i])})

\* C8's case: a pull request closed unmerged, one closed merged, one opened
C8_Witness ==
    /\ Analyzed
    /\ \E i, j, k \in DOMAIN filtered :
          /\ IsPullRequest(filtered[i], "closed")
          /\ filtered[i].payload.pull_request = <<[merged |-> <<FALSE>>]>>
          /\ IsPullRequest(filtered[j], "closed") /\ MergedTrue(filtered[j])
          /\ IsPullRequest(filtered[k], "opened")
    /\ stats.prs_opened = 1
    /\ stats.prs_merged = 1

\* the orderings of an event list
Orderings(evs) ==
    {[i \in 1..Len(evs) |-> evs[f[i]]] : f \in Permutations(1..Len(evs))}

\* a Counter as the mapping it is: its (key, count) pairs
Histogram(c) == {<<c[i].key, c[i].n>> : i \in DOMAIN c}

SameAggregates(a, b) ==
    /\ a.total_events = b.total_events
    /\ a.commits = b.commits
    /\ a.prs_opened = b.prs_opened
    /\ a.prs_merged = b.prs_merged
    /\ a.issues = b.issues
    /\ Histogram(a.repo_counter) = Histogram(b.repo_counter)
    /\ Histogram(a.day_counter) = Histogram(b.day_counter)

\* C9: aggregation is order-independent.  analyze_events gives every
\* ordering of the event list the counters and the two histograms (the same
\* keys with the same counts) it gave the list itself.
C9_OrderIndependent ==
    Analyzed => \A p \in Orderings(filtered) : SameAggregates(analyze_events(p), stats)

\* C9's case: three different events, two pushes among them, in two
\* repositories on two dates
C9_Witness ==
    /\ Analyzed
    /\ Len(filtered) = 3
    /\ Cardinality(Orderings(filtered)) = 6
    /\ Len(stats.repo_counter) = 2
    /\ Len(stats.day_counter) = 2
    /\ stats.commits = 2
    /\ Cardinality({i \in DOMAIN filtered : filtered[i].type = "PushEvent"}) = 2

\* C10 as claimed: the busiest day shown depends on the histogram only, so
\* every ordering of the event list gives the same busiest day; and no
\* busiest day is shown when day_counter is empty.
C10_BusiestDayByHistogram ==
    (pc = "exit" /\ dashboard.rendered) =>
        /\ \A p \in Orderings(filtered) :
              render_dashboard(days, analyze_events(p), lang_stats).busiest
                  = dashboard.busiest
        /\ stats.day_counter = << >> => dashboard.busiest = << >>

====
